---- MODULE Spec2Model ----
(***************************************************************************)
(* Model of src/app.py (Data4Civic): compute_metrics, the render helpers   *)
(* that compute something (render_fairness_index, render_storytelling)     *)
(* and the control flow of main().                                         *)
(*                                                                         *)
(* Numbers.  A pandas float64 cell is modelled as an extended rational     *)
(* [n, d]: d > 0 is the finite value n/d in lowest terms, d = 0 is one of  *)
(* the IEEE specials: n = 0 NaN, n = 1 +inf, n = -1 -inf.  The operators   *)
(* follow the IEEE/numpy rules for the specials (x/0, 0/0, inf-inf, NaN    *)
(* propagation, comparisons with NaN are false); binary rounding of finite *)
(* values and the sign of zero are not modelled (with non-negative inputs  *)
(* the code never divides by a negative zero).                             *)
(***************************************************************************)
EXTENDS Integers, Sequences, FiniteSets, TLC

VARIABLES
    pc,        \* position of the run of main(); "harness" when functions are called directly
    upload,    \* what st.file_uploader returned for this run
    hasEditor, \* hasattr(st, 'data_editor') of the installed streamlit
    method,    \* fairness_method (selectbox value, or the argument of the last direct call)
    df,        \* the DataFrame object bound to df
    df_edit,   \* the DataFrame object bound to df_edit in main()
    hist,      \* record of the calls made so far, in order
    shown      \* the widgets written to the page so far

vars == <<pc, upload, hasEditor, method, df, df_edit, hist, shown>>

\* ---- bounds of the model ----
MaxRows == 2
MaxCalls == 2

\* ---- cells ----
IntCell(v) == [t |-> "int", n |-> v, d |-> 1, s |-> ""]
StrCell(x) == [t |-> "str", n |-> 0, d |-> 0, s |-> x]

RECURSIVE GCD(_, _)
GCD(a, b) == IF b = 0 THEN a ELSE GCD(b, a % b)

AbsInt(a) == IF a < 0 THEN -a ELSE a

\* float64 value n/d, kept in lowest terms with a positive denominator
Fl(n, d) ==
    LET g == GCD(AbsInt(n), AbsInt(d))
        sg == IF d < 0 THEN -1 ELSE 1
    IN [t |-> "float", n |-> sg * (n \div g), d |-> sg * (d \div g), s |-> ""]

NaN == [t |-> "float", n |-> 0, d |-> 0, s |-> ""]
Inf(sign) == [t |-> "float", n |-> sign, d |-> 0, s |-> ""]
Zero == Fl(0, 1)
One == Fl(1, 1)
Hundred == Fl(100, 1)

IsNaN(x) == x.d = 0 /\ x.n = 0
IsInf(x) == x.d = 0 /\ x.n # 0
IsFinite(x) == x.d > 0
Sign(x) == IF x.n > 0 THEN 1 ELSE IF x.n < 0 THEN -1 ELSE 0

FNeg(a) == [a EXCEPT !.n = -a.n]
FAbs(a) == [a EXCEPT !.n = AbsInt(a.n)]

FAdd(a, b) ==
    IF IsNaN(a) \/ IsNaN(b) THEN NaN
    ELSE IF IsInf(a) THEN (IF IsInf(b) /\ b.n # a.n THEN NaN ELSE a)
    ELSE IF IsInf(b) THEN b
    ELSE Fl(a.n * b.d + b.n * a.d, a.d * b.d)

FSub(a, b) == FAdd(a, FNeg(b))

FMul(a, b) ==
    IF IsNaN(a) \/ IsNaN(b) THEN NaN
    ELSE IF IsInf(a) \/ IsInf(b)
         THEN (IF Sign(a) * Sign(b) = 0 THEN NaN ELSE Inf(Sign(a) * Sign(b)))
    ELSE Fl(a.n * b.n, a.d * b.d)

\* numpy float division: no exception, x/0 is +-inf, 0/0 is NaN
FDiv(a, b) ==
    IF IsNaN(a) \/ IsNaN(b) THEN NaN
    ELSE IF IsInf(a)
         THEN (IF IsInf(b) THEN NaN ELSE IF b.n < 0 THEN Inf(-a.n) ELSE Inf(a.n))
    ELSE IF IsInf(b) THEN Zero
    ELSE IF b.n = 0 THEN (IF a.n = 0 THEN NaN ELSE Inf(Sign(a)))
    ELSE Fl(a.n * b.d, a.d * b.n)

\* a < b on floats; false when either is NaN
FLt(a, b) ==
    IF IsNaN(a) \/ IsNaN(b) THEN FALSE
    ELSE IF IsInf(a) THEN a.n < 0 /\ ~(IsInf(b) /\ b.n < 0)
    ELSE IF IsInf(b) THEN b.n > 0
    ELSE a.n * b.d < b.n * a.d

\* Series.clip(lower, upper): NaN stays NaN
Clip(x, lower, upper) ==
    IF IsNaN(x) THEN x
    ELSE IF FLt(x, lower) THEN lower
    ELSE IF FLt(upper, x) THEN upper
    ELSE x

\* ---- tables (DataFrames) ----
\* cols: the column labels; rows: one function cols -> cell per row, in index order
NoTable == [cols |-> {}, rows |-> <<>>]

NRows(T) == Len(T.rows)
Col(T, c) == [i \in 1..NRows(T) |-> T.rows[i][c]]

\* the columns compute_metrics writes besides budget and population
DerivedCols == {"budget_share", "population_share", "fairness_index", "fairness_ratio"}

\* variant: the assignment re-sorts the frame, the other columns come back in reverse order
AssignColumnReversed(T, c, vals) ==
    [cols |-> T.cols \cup {c},
     rows |-> [i \in 1..NRows(T) |->
                 [k \in T.cols \cup {c} |->
                     IF k = c THEN vals[i] ELSE T.rows[NRows(T) + 1 - i][k]]]]

\* variant: df[c] += vals on a derived column the frame already carries
AssignColumnAccumulate(T, c, vals) ==
    [cols |-> T.cols \cup {c},
     rows |-> [i \in 1..NRows(T) |->
                 [k \in T.cols \cup {c} |->
                     IF k # c THEN T.rows[i][k]
                     ELSE IF c \in T.cols \cap DerivedCols THEN FAdd(T.rows[i][c], vals[i])
                     ELSE vals[i]]]]

\* df[c] = vals   (adds the column or overwrites it, rows stay in place)
AssignColumn(T, c, vals) ==
    [cols |-> T.cols \cup {c},
     rows |-> [i \in 1..NRows(T) |->
                 [k \in T.cols \cup {c} |-> IF k = c THEN vals[i] ELSE T.rows[i][k]]]]

\* Series.astype(float) converts every cell or raises ValueError on a string
\* that is no number
CanFloat(col) == \A i \in DOMAIN col : col[i].t # "str"
AsFloat(col) == [i \in DOMAIN col |-> [col[i] EXCEPT !.t = "float"]]

\* Series.sum(): skipna=True, the sum of no values is 0
RECURSIVE SumFrom(_, _)
SumFrom(col, i) ==
    IF i > Len(col) THEN Zero
    ELSE IF IsNaN(col[i]) THEN SumFrom(col, i + 1)
    ELSE FAdd(col[i], SumFrom(col, i + 1))

Sum(col) == SumFrom(col, 1)

Share(col, total) == [i \in DOMAIN col |-> FMul(FDiv(col[i], total), Hundred)]

\* ---- compute_metrics ----
Required == {"sector", "budget", "population"}
ValidMethods == {"difference", "proportional", "ratio"}

\* variant: the function works on df.copy(), the caller's object is left alone
InPlaceCopy(before, after) == before

\* the parameter df is the caller's DataFrame object and every df[...] = ...
\* writes into it: what the caller sees after the call is the written table
InPlace(before, after) == after

\* outcome of a call: raised ("" when it returned), arg = the argument object
\* after the call, ret = the returned table
Raise(exc, before, after) == [raised |-> exc, arg |-> InPlace(before, after), ret |-> NoTable]
Return(before, after) == [raised |-> "", arg |-> InPlace(before, after), ret |-> after]

\* variant: the chain ends in an else branch, every method value assigns the index
HasBranchDefault(fairness_method) == TRUE

\* the if/elif chain on fairness_method; no else branch
HasBranch(fairness_method) == fairness_method \in ValidMethods

FairnessIndex(bs, ps, fairness_method) ==
    [i \in DOMAIN bs |->
        IF fairness_method = "difference" THEN FSub(bs[i], ps[i])
        ELSE IF fairness_method = "proportional"
             THEN FMul(Clip(FSub(One, FDiv(FAbs(FSub(bs[i], ps[i])), ps[i])), Zero, One),
                       Hundred)
        ELSE FMul(FSub(FDiv(bs[i], ps[i]), One), Hundred)]

FairnessRatio(bs, ps) == [i \in DOMAIN bs |-> FDiv(bs[i], ps[i])]

compute_metrics(df0, fairness_method) ==
    IF "budget" \notin df0.cols THEN Raise("KeyError", df0, df0)
    ELSE IF ~CanFloat(Col(df0, "budget")) THEN Raise("ValueError", df0, df0)
    ELSE
    LET d7 == AssignColumn(df0, "budget", AsFloat(Col(df0, "budget"))) IN
    IF "population" \notin d7.cols THEN Raise("KeyError", df0, d7)
    ELSE IF ~CanFloat(Col(d7, "population")) THEN Raise("ValueError", df0, d7)
    ELSE
    LET d8 == AssignColumn(d7, "population", AsFloat(Col(d7, "population")))
        total_budget == Sum(Col(d8, "budget"))
        total_population == Sum(Col(d8, "population"))
        d11 == AssignColumn(d8, "budget_share", Share(Col(d8, "budget"), total_budget))
        d12 == AssignColumn(d11, "population_share",
                            Share(Col(d11, "population"), total_population))
        bs == Col(d12, "budget_share")
        ps == Col(d12, "population_share")
        d24 == IF HasBranch(fairness_method)
               THEN AssignColumn(d12, "fairness_index", FairnessIndex(bs, ps, fairness_method))
               ELSE d12
        d26 == AssignColumn(d24, "fairness_ratio", FairnessRatio(bs, ps))
    IN Return(df0, d26)

\* ---- render_fairness_index ----
\* Series.mean(): skipna=True, NaN when there is no value to average
NotNaN(col) == {i \in DOMAIN col : ~IsNaN(col[i])}
Mean(col) == FDiv(Sum(col), Fl(Cardinality(NotNaN(col)), 1))

\* the message shown under the metric
FairnessMessage(avg_fairness, fairness_method) ==
    IF fairness_method = "proportional" THEN "info: higher is more fair"
    ELSE IF FLt(avg_fairness, Zero) THEN "info: under-funding"
    ELSE "success: over-funding"

\* ---- render_storytelling ----
\* Series.idxmin() / idxmax(): NaN skipped, first occurrence wins, 0 when
\* there is no value (pandas raises, or returns NaN and the .loc lookup raises)
IdxMin(col) ==
    IF NotNaN(col) = {} THEN 0
    ELSE CHOOSE i \in NotNaN(col) :
            \A j \in NotNaN(col) : IF j < i THEN FLt(col[i], col[j]) ELSE ~FLt(col[j], col[i])

IdxMax(col) ==
    IF NotNaN(col) = {} THEN 0
    ELSE CHOOSE i \in NotNaN(col) :
            \A j \in NotNaN(col) : IF j < i THEN FLt(col[j], col[i]) ELSE ~FLt(col[i], col[j])

AbsCol(col) == [i \in DOMAIN col |-> FAbs(col[i])]

Wording(delta) == IF FLt(delta, Zero) THEN "under-funded" ELSE "over-funded"

NoCell == StrCell("")
NoStory(exc) == [raised |-> exc, pick |-> 0, sector |-> NoCell, value |-> NoCell, wording |-> ""]

\* what the narrative line reports: the picked row, its sector, its value and
\* the wording (the number formatting of the f-string is not modelled)
render_storytelling(T, fairness_method) ==
    IF "fairness_index" \notin T.cols THEN NoStory("KeyError")
    ELSE
    LET fi == Col(T, "fairness_index")
        at == IF fairness_method = "proportional" THEN IdxMin(fi) ELSE IdxMax(AbsCol(fi))
    IN IF at = 0 THEN NoStory("ValueError")
       ELSE IF "sector" \notin T.cols THEN NoStory("KeyError")
       ELSE [raised |-> "", pick |-> at, sector |-> T.rows[at]["sector"], value |-> fi[at],
             wording |-> IF fairness_method = "proportional" THEN "lowest fairness"
                         ELSE Wording(fi[at])]

\* ---- inputs ----
Labels == <<"Health", "Education", "Transport", "Housing", "Parks", "Water">>

\* a parsed CSV cell of a numeric column: an integer or text that is no number
\* (an empty cell, NaN, enters through the editor in main())
RawCells == {IntCell(0), IntCell(1), IntCell(2), StrCell("abc")}

\* tables with the required columns and one extra column, up to MaxRows rows
TablesOver(cells) ==
    UNION {
        { [cols |-> Required \cup {"rank"},
           rows |-> [i \in 1..len |->
                       [k \in Required \cup {"rank"} |->
                           IF k = "sector" THEN StrCell(Labels[i])
                           ELSE IF k = "rank" THEN IntCell(i)
                           ELSE IF k = "budget" THEN b[i]
                           ELSE p[i]]]] :
            b \in [1..len -> cells], p \in [1..len -> cells] } :
        len \in 0..MaxRows }

InputTables == TablesOver(RawCells)

\* ---- the record of calls ----
ComputeCall(m, pre, r) ==
    [op |-> "compute_metrics", method |-> m, raised |-> r.raised, pre |-> pre,
     post |-> r.arg, ret |-> r.ret, story |-> NoStory("")]

StoryCall(m, T, st) ==
    [op |-> "render_storytelling", method |-> m, raised |-> st.raised, pre |-> T,
     post |-> T, ret |-> NoTable, story |-> st]

NoUpload == [kind |-> "none", table |-> NoTable]

\* ---- direct calls of the functions ----
Init ==
    /\ pc = "harness"
    /\ upload = NoUpload
    /\ hasEditor = FALSE
    /\ method = "difference"
    /\ df \in InputTables
    /\ df_edit = NoTable
    /\ hist = <<>>
    /\ shown = {}

\* df = compute_metrics(df, m), for any value of m
CallComputeMetrics ==
    /\ pc = "harness"
    /\ Len(hist) < MaxCalls
    /\ \E m \in ValidMethods \cup {"other"} :
        LET r == compute_metrics(df, m) IN
        /\ method' = m
        /\ df' = r.arg
        /\ hist' = Append(hist, ComputeCall(m, df, r))
    /\ UNCHANGED <<pc, upload, hasEditor, df_edit, shown>>

\* render_storytelling(df, method)
CallRenderStorytelling ==
    /\ pc = "harness"
    /\ Len(hist) < MaxCalls
    /\ hist' = Append(hist, StoryCall(method, df, render_storytelling(df, method)))
    /\ UNCHANGED <<pc, upload, hasEditor, method, df, df_edit, shown>>

Next == CallComputeMetrics \/ CallRenderStorytelling

Spec == Init /\ [][Next]_vars

\* ---- main() ----
\* cells of the uploaded numeric columns, and the values a user types into the editor
UploadCells == {IntCell(0), IntCell(2), StrCell("abc")}
EditVals == {Zero, Fl(2, 1), NaN}
EditCols == {"budget", "population", "fairness_ratio"}

\* the table without column c / with column c relabelled
DropColumn(T, c) ==
    [cols |-> T.cols \ {c},
     rows |-> [i \in 1..NRows(T) |-> [k \in T.cols \ {c} |-> T.rows[i][k]]]]

RenameColumn(T, c, c2) ==
    [cols |-> (T.cols \ {c}) \cup {c2},
     rows |-> [i \in 1..NRows(T) |->
                 [k \in (T.cols \ {c}) \cup {c2} |-> IF k = c2 THEN T.rows[i][c] ELSE T.rows[i][k]]]]

\* what the uploader can hand to main(): nothing, a file read_csv cannot parse,
\* or a parsed table (all columns, no extra column, a required column missing,
\* a required column spelled in another case)
Uploads ==
    {NoUpload, [kind |-> "garbage", table |-> NoTable]}
    \cup { [kind |-> "csv", table |-> T] : T \in TablesOver(UploadCells) }
    \cup { [kind |-> "csv", table |-> DropColumn(T, "rank")] : T \in TablesOver(UploadCells) }
    \cup { [kind |-> "csv", table |-> DropColumn(T, "budget")] : T \in TablesOver(UploadCells) }
    \cup { [kind |-> "csv", table |-> RenameColumn(T, "sector", "Sector")] :
             T \in TablesOver(UploadCells) }

\* variant: the test passes when any one of the required columns is there
HasSomeRequiredColumn(T) == Required \cap T.cols # {}

\* the required-column test of main()
HasRequiredColumns(T) == Required \subseteq T.cols

\* st.data_editor(df, num_rows="dynamic"): the table as the user left it
SetCell(T, i, c, v) == [T EXCEPT !.rows[i][c] = v]
RemoveRow(T, i) ==
    [T EXCEPT !.rows = [j \in 1..(NRows(T) - 1) |-> IF j < i THEN T.rows[j] ELSE T.rows[j + 1]]]
AddRow(T) ==
    [T EXCEPT !.rows = Append(T.rows, [k \in T.cols |-> IF k = "sector" THEN NoCell ELSE NaN])]

Edits(T) ==
    {T}
    \cup { SetCell(T, i, c, v) : i \in 1..NRows(T), c \in EditCols \cap T.cols, v \in EditVals }
    \cup { RemoveRow(T, i) : i \in 1..NRows(T) }
    \cup (IF NRows(T) < MaxRows THEN {AddRow(T)} ELSE {})

InitMain ==
    /\ pc = "start"
    /\ upload \in Uploads
    /\ hasEditor \in BOOLEAN
    /\ method \in ValidMethods
    /\ df = NoTable
    /\ df_edit = NoTable
    /\ hist = <<>>
    /\ shown = {}

\* lines 118-141: title, caption, sidebar with the method selector
MainHeader ==
    /\ pc = "start"
    /\ pc' = "upload"
    /\ shown' = shown \cup {"title", "sidebar"}
    /\ UNCHANGED <<upload, hasEditor, method, df, df_edit, hist>>

\* lines 143-155: read the upload and test its columns
MainReadUpload ==
    /\ pc = "upload"
    /\ IF upload.kind = "none"
       THEN /\ shown' = shown \cup {"info: upload a CSV"}
            /\ pc' = "done"
            /\ df' = df
       ELSE IF upload.kind = "garbage"
       THEN /\ shown' = shown \cup {"error: reading CSV"}
            /\ pc' = "done"
            /\ df' = df
       ELSE IF ~HasRequiredColumns(upload.table)
       THEN /\ shown' = shown \cup {"error: missing columns"}
            /\ pc' = "done"
            /\ df' = upload.table
       ELSE /\ shown' = shown
            /\ pc' = "compute1"
            /\ df' = upload.table
    /\ UNCHANGED <<upload, hasEditor, method, df_edit, hist>>

\* line 157: df = compute_metrics(df, fairness_method); an exception ends the run
MainCompute1 ==
    /\ pc = "compute1"
    /\ LET r == compute_metrics(df, method) IN
        /\ hist' = Append(hist, ComputeCall(method, df, r))
        /\ df' = r.arg
        /\ pc' = IF r.raised = "" THEN "chart" ELSE "crashed"
    /\ UNCHANGED <<upload, hasEditor, method, df_edit, shown>>

\* line 158: render_chart(df)
MainRenderChart ==
    /\ pc = "chart"
    /\ shown' = shown \cup {"chart"}
    /\ pc' = "table"
    /\ UNCHANGED <<upload, hasEditor, method, df, df_edit, hist>>

\* line 159: df_edit = render_table(df)
MainRenderTable ==
    /\ pc = "table"
    /\ IF hasEditor
       THEN /\ df_edit' \in Edits(df)
            /\ shown' = shown \cup {"data_editor"}
       ELSE /\ df_edit' = df
            /\ shown' = shown \cup {"dataframe"}
    /\ pc' = "compute2"
    /\ UNCHANGED <<upload, hasEditor, method, df, hist>>

\* line 160: df_edit = compute_metrics(df_edit, fairness_method); without the
\* editor df_edit is the object df, so the call writes into df as well
MainCompute2 ==
    /\ pc = "compute2"
    /\ LET r == compute_metrics(df_edit, method) IN
        /\ hist' = Append(hist, ComputeCall(method, df_edit, r))
        /\ df_edit' = r.arg
        /\ df' = IF hasEditor THEN df ELSE r.arg
        /\ pc' = IF r.raised = "" THEN "index" ELSE "crashed"
    /\ UNCHANGED <<upload, hasEditor, method, shown>>

\* line 161: render_fairness_index(df_edit, fairness_method)
MainRenderFairnessIndex ==
    /\ pc = "index"
    /\ shown' = shown \cup {"metric",
                            FairnessMessage(Mean(Col(df_edit, "fairness_index")), method)}
    /\ pc' = "detail"
    /\ UNCHANGED <<upload, hasEditor, method, df, df_edit, hist>>

\* line 162: render_fairness_table(df_edit, fairness_method)
MainRenderFairnessTable ==
    /\ pc = "detail"
    /\ shown' = shown \cup {"fairness table"}
    /\ pc' = "story"
    /\ UNCHANGED <<upload, hasEditor, method, df, df_edit, hist>>

\* line 163: render_storytelling(df_edit, fairness_method)
MainRenderStorytelling ==
    /\ pc = "story"
    /\ LET st == render_storytelling(df_edit, method) IN
        /\ hist' = Append(hist, StoryCall(method, df_edit, st))
        /\ shown' = IF st.raised = "" THEN shown \cup {"story"} ELSE shown
        /\ pc' = IF st.raised = "" THEN "done" ELSE "crashed"
    /\ UNCHANGED <<upload, hasEditor, method, df, df_edit>>

NextMain ==
    \/ MainHeader
    \/ MainReadUpload
    \/ MainCompute1
    \/ MainRenderChart
    \/ MainRenderTable
    \/ MainCompute2
    \/ MainRenderFairnessIndex
    \/ MainRenderFairnessTable
    \/ MainRenderStorytelling

SpecMain == InitMain /\ [][NextMain]_vars

\* ======================= properties =======================
Computes == {k \in DOMAIN hist : hist[k].op = "compute_metrics"}
Stories == {k \in DOMAIN hist : hist[k].op = "render_storytelling"}

\* the value of a cell, whatever its dtype (500 and 500.0 are the same value)
NumVal(c) == [c EXCEPT !.t = IF c.t = "int" THEN "float" ELSE c.t]

WellFormed(T) == CanFloat(Col(T, "budget")) /\ CanFloat(Col(T, "population"))
TotalBudget(T) == Sum(AsFloat(Col(T, "budget")))
TotalPopulation(T) == Sum(AsFloat(Col(T, "population")))
Degenerate(T) == TotalBudget(T) = Zero \/ TotalPopulation(T) = Zero
NonDegenerate(T) == FLt(Zero, TotalBudget(T)) /\ FLt(Zero, TotalPopulation(T))

\* the zero-guarded divisor of the specification
Divisor(ps) == IF ps = Zero THEN One ELSE ps

\* C1: whenever the budgets or the populations of the input sum to 0,
\* compute_metrics returns (no error) and budget_share, population_share,
\* fairness_index and fairness_ratio are exactly 0 in every row.
C1_DegenerateTotalsAllZero ==
    \A k \in Computes :
        LET c == hist[k] IN
        (c.method \in ValidMethods /\ WellFormed(c.pre) /\ Degenerate(c.pre))
        => /\ c.raised = ""
           /\ \A i \in 1..NRows(c.ret) : \A col \in DerivedCols : c.ret.rows[i][col] = Zero

Malformed(T, col) == {i \in 1..NRows(T) : T.rows[i][col].t = "str"}

\* C3: a budget or population cell that is no number counts as 0 and the call
\* completes with a result for every row; it never raises because of the cell.
C3_MalformedCoercedToZero ==
    \A k \in Computes :
        LET c == hist[k] IN
        ~WellFormed(c.pre)
        => /\ c.raised = ""
           /\ NRows(c.ret) = NRows(c.pre)
           /\ \A col \in {"budget", "population"} :
                 \A i \in Malformed(c.pre, col) : c.ret.rows[i][col] = Zero

\* C4: for a table with positive totals, in every row and for every method,
\* fairness_ratio = budget_share / divisor, the divisor being population_share
\* or 1 when that is 0; the ratio is finite.
C4_ZeroGuardedRatio ==
    \A k \in Computes :
        LET c == hist[k] IN
        (c.raised = "" /\ NonDegenerate(c.pre))
        => \A i \in 1..NRows(c.ret) :
              LET r == c.ret.rows[i] IN
              /\ r["fairness_ratio"] = FDiv(r["budget_share"], Divisor(r["population_share"]))
              /\ IsFinite(r["fairness_ratio"])

\* C5: under the proportional method, for a table with positive totals, every
\* row's fairness_index is a number in [0, 100], equal to
\* 100 * clamp(1 - |budget_share - population_share| / divisor, 0, 1).
C5_ProportionalBounded ==
    \A k \in Computes :
        LET c == hist[k] IN
        (c.raised = "" /\ c.method = "proportional" /\ NonDegenerate(c.pre))
        => \A i \in 1..NRows(c.ret) :
              LET r == c.ret.rows[i]
                  gap == FAbs(FSub(r["budget_share"], r["population_share"]))
                  want == FMul(Clip(FSub(One, FDiv(gap, Divisor(r["population_share"]))),
                                    Zero, One), Hundred)
              IN /\ r["fairness_index"] = want
                 /\ IsFinite(r["fairness_index"])
                 /\ ~FLt(r["fairness_index"], Zero)
                 /\ ~FLt(Hundred, r["fairness_index"])

\* C6: the table a call returns has as many rows as the input, in the input's
\* order: row i carries the sector, budget, population and extra-column values
\* of input row i, for every method and for degenerate tables too.
C6_RowsPreserved ==
    \A k \in Computes :
        LET c == hist[k] IN
        c.raised = ""
        => /\ NRows(c.ret) = NRows(c.pre)
           /\ \A i \in 1..NRows(c.pre) : \A col \in c.pre.cols \ DerivedCols :
                 NumVal(c.ret.rows[i][col]) = NumVal(c.pre.rows[i][col])

\* a call returned a table of several rows whose budgets differ
C6_Witness ==
    \E k \in Computes :
        /\ hist[k].raised = ""
        /\ NRows(hist[k].ret) >= 2
        /\ hist[k].ret.rows[1]["budget"] # hist[k].ret.rows[2]["budget"]
        /\ hist[k].ret.rows[1]["sector"] = StrCell(Labels[1])

\* the derived columns of two tables agree in every row
SameDerived(T1, T2) ==
    /\ NRows(T1) = NRows(T2)
    /\ T1.cols \cap DerivedCols = T2.cols \cap DerivedCols
    /\ \A i \in 1..NRows(T1) : \A col \in T1.cols \cap DerivedCols :
          T1.rows[i][col] = T2.rows[i][col]

SameRaw(T1, T2) ==
    /\ NRows(T1) = NRows(T2)
    /\ \A i \in 1..NRows(T1) : \A col \in {"budget", "population"} :
          NumVal(T1.rows[i][col]) = NumVal(T2.rows[i][col])

\* C7: a call with method m on the table an earlier call with m returned, the
\* budget and population columns being what that call returned, gives the
\* same budget_share, population_share, fairness_index and fairness_ratio.
C7_Idempotent ==
    \A k \in Computes : \A l \in Computes :
        (/\ k < l
         /\ hist[k].method \in ValidMethods
         /\ hist[l].method = hist[k].method
         /\ hist[k].raised = ""
         /\ DerivedCols \subseteq hist[l].pre.cols
         /\ SameRaw(hist[l].pre, hist[k].ret))
        => /\ hist[l].raised = ""
           /\ SameDerived(hist[l].ret, hist[k].ret)

\* the same method was applied twice in a row to a table with finite, non-zero shares
C7_Witness ==
    /\ Len(hist) = 2
    /\ hist[1].op = "compute_metrics" /\ hist[2].op = "compute_metrics"
    /\ hist[1].method = "ratio" /\ hist[2].method = "ratio"
    /\ hist[2].raised = ""
    /\ hist[2].pre = hist[1].ret
    /\ NRows(hist[2].ret) >= 2
    /\ FLt(Zero, hist[2].ret.rows[1]["fairness_index"])

Untouched(c, col) ==
    IF col \in c.pre.cols
    THEN col \in c.ret.cols /\ Col(c.ret, col) = Col(c.pre, col)
    ELSE col \notin c.ret.cols

\* C8 as stated: with a method outside the three, the call does not raise and
\* computes neither fairness_index nor fairness_ratio: each is absent from the
\* result, or is what the input already carried.
C8_UnknownMethodLeavesBothUnset ==
    \A k \in Computes :
        LET c == hist[k] IN
        (c.method \notin ValidMethods /\ WellFormed(c.pre))
        => /\ c.raised = ""
           /\ Untouched(c, "fairness_index")
           /\ Untouched(c, "fairness_ratio")

\* C8 amended: with a method outside the three, the method causes no error
\* (the call raises exactly when a budget or population cell is no number, as
\* with any method); when it returns, fairness_index is not computed, it is
\* absent or what the input already carried, but fairness_ratio is computed
\* as budget_share / population_share in every row.
C8_UnknownMethodSkipsIndexOnly ==
    \A k \in Computes :
        LET c == hist[k] IN
        c.method \notin ValidMethods
        => /\ c.raised = "" <=> WellFormed(c.pre)
           /\ c.raised = "" =>
                 /\ Untouched(c, "fairness_index")
                 /\ "fairness_ratio" \in c.ret.cols
                 /\ \A i \in 1..NRows(c.ret) :
                       c.ret.rows[i]["fairness_ratio"] =
                           FDiv(c.ret.rows[i]["budget_share"], c.ret.rows[i]["population_share"])

\* an unknown method was applied to a table that carried a finite, non-zero
\* index from an earlier call
C8_Witness ==
    \E k \in Computes :
        /\ hist[k].method \notin ValidMethods
        /\ hist[k].raised = ""
        /\ "fairness_index" \in hist[k].pre.cols
        /\ NRows(hist[k].ret) >= 1
        /\ FLt(Zero, hist[k].ret.rows[1]["fairness_index"])
        /\ IsFinite(hist[k].ret.rows[1]["fairness_ratio"])

Measure(m, v) == IF m = "proportional" THEN FNeg(v) ELSE FAbs(v)

\* C9: the narrative reports the first row holding the minimum fairness_index
\* (proportional) or the first row holding the maximum |fairness_index|
\* (difference, ratio); for difference and ratio it says "under-funded" exactly
\* when the reported value is negative and "over-funded" exactly when it is
\* positive.
C9_NarrativeSelection ==
    \A k \in Stories :
        LET c == hist[k]
            fi == Col(c.pre, "fairness_index")
            st == c.story
        IN
        (c.method \in ValidMethods /\ c.raised = "")
        => /\ st.pick \in 1..NRows(c.pre)
           /\ st.value = fi[st.pick]
           /\ st.sector = c.pre.rows[st.pick]["sector"]
           /\ \A j \in 1..NRows(c.pre) :
                 /\ ~FLt(Measure(c.method, st.value), Measure(c.method, fi[j]))
                 /\ j < st.pick => Measure(c.method, fi[j]) # Measure(c.method, st.value)
           /\ c.method # "proportional" =>
                 /\ st.wording = "under-funded" <=> FLt(st.value, Zero)
                 /\ st.wording = "over-funded" <=> FLt(Zero, st.value)

Rendered == {"chart", "data_editor", "dataframe", "metric", "fairness table", "story"}
Errors == {"error: reading CSV", "error: missing columns"}

Rejected ==
    \/ upload.kind = "garbage"
    \/ upload.kind = "csv" /\ ~({"sector", "budget", "population"} \subseteq upload.table.cols)

\* C10: when the upload cannot be parsed or lacks one of sector, budget,
\* population, the run reports an error and ends with no call of
\* compute_metrics and no chart, table, summary or narrative; calls and
\* renders happen only for an upload that has the three columns.
C10_NoProcessingWithoutColumns ==
    /\ Rejected =>
          /\ hist = <<>>
          /\ shown \cap Rendered = {}
          /\ pc \in {"start", "upload", "done"}
          /\ pc = "done" => shown \cap Errors # {}
    /\ (hist # <<>> \/ shown \cap Rendered # {} \/ pc \notin {"start", "upload", "done"}) =>
          /\ upload.kind = "csv"
          /\ {"sector", "budget", "population"} \subseteq upload.table.cols

\* a run ended on an upload with rows and an extra column but no budget column
C10_Witness ==
    /\ pc = "done"
    /\ upload.kind = "csv"
    /\ "budget" \notin upload.table.cols
    /\ "rank" \in upload.table.cols
    /\ NRows(upload.table) > 0
    /\ "error: missing columns" \in shown

====
